---- MODULE Spec2Model ----
(***************************************************************************)
(* Model of consumers/json_consumer_schroder.py: a Kafka consumer that     *)
(* tallies one categorical field of each JSON message in category_counts   *)
(* and redraws a pie chart after every counted message.                    *)
(*                                                                         *)
(* Python values are tagged records [py |-> <type>, ...].  A dict is a set *)
(* of <<key, value>> pairs.  category_counts (a defaultdict(int)) is a     *)
(* sequence of <<key, count>> pairs in insertion order, the order in which *)
(* .keys() and .values() list it.  Text is represented by what json.loads  *)
(* makes of it.  Fractions are percentages: min_share 0.05 is 5, and       *)
(* sz / total < min_share is sz * 100 < min_share * total (the two agree   *)
(* for every total below 2^50).                                            *)
(***************************************************************************)
EXTENDS Integers, Sequences, FiniteSets, TLC

VARIABLES
    pc,               \* position of main: start, poll, processing, finally, done, crashed
    category_counts,  \* the module-level defaultdict(int)
    chart,            \* contents of the axes `ax`: <<labels, sizes>>
    record,           \* record.value of the record being processed, if any
    pulled,           \* records yielded by the consumer so far
    returned,         \* calls of process_message that returned
    dropped,          \* messages with an unusable payload or a caught exception
    last_render,      \* outcome of the last update_chart call: none, ok, raised
    method,           \* what the last step did
    loop_end,         \* how the for loop ended: running, interrupt, exhausted, consumer_error
    close_calls,      \* calls of consumer.close()
    args,             \* arguments of a direct call of _collapse_small
    ret               \* its result

vars == <<pc, category_counts, chart, record, pulled, returned, dropped,
          last_render, method, loop_end, close_calls, args, ret>>

(***************************************************************************)
(* Bounds and program constants                                            *)
(***************************************************************************)
MaxMsgs == 3

MaxCats == 4

DEFAULT_MIN_SHARE == 5

KEEP_FLOOR == 2

CATEGORY_FIELD == "category"

(***************************************************************************)
(* Python values                                                           *)
(***************************************************************************)
PyNone == [py |-> "None"]

PyStr(s) == [py |-> "str", s |-> s]

PyInt(n) == [py |-> "int", n |-> n]

PyBool(b) == [py |-> "bool", b |-> b]

PyList(n) == [py |-> "list", len |-> n]

PyDict(items) == [py |-> "dict", items |-> items]

\* Values the category field takes in the messages of the model.
FieldValues ==
    { PyStr("Cats "), PyStr("cats"), PyStr("  "), PyStr("tech"),
      PyNone, PyInt(7), PyBool(TRUE) }

\* Decoded events: no keys at all, the category field absent, and the
\* category field present with each value.
Events ==
    { PyDict({}), PyDict({<<"message", PyStr("hi")>>}) }
    \cup { PyDict({<<CATEGORY_FIELD, v>>}) : v \in FieldValues }

\* JSON values that are not objects.
NonMappings ==
    { PyList(2), PyList(0), PyInt(5), PyInt(0), PyStr("x"), PyNone, PyBool(TRUE) }

\* Text, by what a JSON parser finds in it.
Texts ==
    { [kind |-> "json", value |-> v] : v \in Events \cup NonMappings }
    \cup { [kind |-> "invalid"], [kind |-> "too_deep"] }

\* record.value: a dict, text, UTF-8 bytes (intact or with a damaged byte in
\* the JSON structure), or a value of another type.
Payloads ==
    { [type |-> "dict", value |-> e] : e \in Events }
    \cup { [type |-> "str", text |-> t] : t \in Texts }
    \cup { [type |-> "bytes", text |-> t, damaged |-> d] :
             t \in { [kind |-> "json", value |-> PyDict({<<CATEGORY_FIELD, PyStr("tech")>>})],
                     [kind |-> "json", value |-> PyDict({})],
                     [kind |-> "invalid"] },
             d \in BOOLEAN }
    \cup { [type |-> "other", value |-> v] : v \in {PyInt(42), PyNone} }

NoRecord == [type |-> "none"]

(***************************************************************************)
(* Library functions used by the program                                   *)
(***************************************************************************)
\* bool(v)
truthy(v) ==
    CASE v.py = "None" -> FALSE
      [] v.py = "dict" -> v.items # {}
      [] v.py = "list" -> v.len # 0
      [] v.py = "int"  -> v.n # 0
      [] v.py = "str"  -> v.s # ""
      [] v.py = "bool" -> v.b

\* bytes.decode("utf-8", errors="replace"): never raises; a damaged byte
\* becomes U+FFFD, which is no JSON syntax.
decode(payload) ==
    IF payload.damaged THEN [kind |-> "invalid"] ELSE payload.text

\* json.loads(text): the parsed value, or the exception raised.
json_loads(text) ==
    CASE text.kind = "invalid"  -> [raised |-> "JSONDecodeError"]
      [] text.kind = "too_deep" -> [raised |-> "RecursionError"]
      [] text.kind = "json"     -> [raised |-> "none", value |-> text.value]

\* s.strip().lower()
strip_lower(s) ==
    CASE s = "Cats " -> "cats"
      [] s = "  "    -> ""
      [] OTHER       -> s

\* str(v) for a value that is no str
py_str(v) ==
    CASE v.py = "int"  -> IF v.n = 7 THEN "7" ELSE "n"
      [] v.py = "bool" -> IF v.b THEN "True" ELSE "False"
      [] v.py = "list" -> "[...]"
      [] v.py = "dict" -> "{...}"
      [] v.py = "None" -> "None"

\* d.get(key, default)
dict_get(d, key, default) ==
    IF \E p \in d.items : p[1] = key
    THEN (CHOOSE p \in d.items : p[1] = key)[2]
    ELSE default

\* sum(sizes)
RECURSIVE sum(_)
sum(sizes) ==
    IF sizes = <<>> THEN 0 ELSE Head(sizes) + sum(Tail(sizes))

\* zip(labels, sizes)
zip(labels, sizes) ==
    [i \in 1..Len(labels) |-> <<labels[i], sizes[i]>>]

\* sorted(pairs, key=lambda p: p[1], reverse=True): stable, so pairs of equal
\* size keep their order.  insert puts p after every pair that is not smaller.
RECURSIVE insert_desc(_, _)
insert_desc(sorted_pairs, p) ==
    IF sorted_pairs = <<>> THEN <<p>>
    ELSE IF Head(sorted_pairs)[2] >= p[2]
         THEN <<Head(sorted_pairs)>> \o insert_desc(Tail(sorted_pairs), p)
         ELSE <<p>> \o sorted_pairs

RECURSIVE sort_desc_from(_, _)
sort_desc_from(done, rest) ==
    IF rest = <<>> THEN done
    ELSE sort_desc_from(insert_desc(done, Head(rest)), Tail(rest))

sorted_desc(pairs) == sort_desc_from(<<>>, pairs)

(***************************************************************************)
(* The frequency table                                                     *)
(***************************************************************************)
keys(counts) == [i \in 1..Len(counts) |-> counts[i][1]]

values(counts) == [i \in 1..Len(counts) |-> counts[i][2]]

\* category_counts[cat], without inserting
count_of(counts, cat) ==
    IF \E i \in 1..Len(counts) : counts[i][1] = cat
    THEN counts[CHOOSE i \in 1..Len(counts) : counts[i][1] = cat][2]
    ELSE 0

\* category_counts[cat] += 2
increment_twice(counts, cat) ==
    IF \E i \in 1..Len(counts) : counts[i][1] = cat
    THEN [i \in 1..Len(counts) |->
            IF counts[i][1] = cat THEN <<cat, counts[i][2] + 2>> ELSE counts[i]]
    ELSE Append(counts, <<cat, 2>>)

\* category_counts[cat] += 1
increment(counts, cat) ==
    IF \E i \in 1..Len(counts) : counts[i][1] = cat
    THEN [i \in 1..Len(counts) |->
            IF counts[i][1] = cat THEN <<cat, counts[i][2] + 1>> ELSE counts[i]]
    ELSE Append(counts, <<cat, 1>>)

(***************************************************************************)
(* Live visuals                                                            *)
(***************************************************************************)
\* The loop with the share test made inclusive (<= in place of <).
RECURSIVE collapse_walk_inclusive(_, _, _, _, _, _)
collapse_walk_inclusive(pairs, total, min_share, keep_labs, keep_sizes, other) ==
    IF pairs = <<>>
    THEN [keep_labs |-> keep_labs, keep_sizes |-> keep_sizes, other |-> other]
    ELSE LET lab == Head(pairs)[1]
             sz  == Head(pairs)[2]
         IN  IF sz * 100 <= min_share * total /\ Len(keep_labs) >= KEEP_FLOOR
             THEN collapse_walk_inclusive(Tail(pairs), total, min_share,
                                          keep_labs, keep_sizes, other + sz)
             ELSE collapse_walk_inclusive(Tail(pairs), total, min_share,
                                          Append(keep_labs, lab), Append(keep_sizes, sz),
                                          other)

\* The loop with the floor off by one (one kept slice is enough to collapse).
RECURSIVE collapse_walk_floor_one(_, _, _, _, _, _)
collapse_walk_floor_one(pairs, total, min_share, keep_labs, keep_sizes, other) ==
    IF pairs = <<>>
    THEN [keep_labs |-> keep_labs, keep_sizes |-> keep_sizes, other |-> other]
    ELSE LET lab == Head(pairs)[1]
             sz  == Head(pairs)[2]
         IN  IF sz * 100 < min_share * total /\ Len(keep_labs) >= KEEP_FLOOR - 1
             THEN collapse_walk_floor_one(Tail(pairs), total, min_share,
                                          keep_labs, keep_sizes, other + sz)
             ELSE collapse_walk_floor_one(Tail(pairs), total, min_share,
                                          Append(keep_labs, lab), Append(keep_sizes, sz),
                                          other)

\* The loop of _collapse_small over the sorted pairs.
RECURSIVE collapse_walk(_, _, _, _, _, _)
collapse_walk(pairs, total, min_share, keep_labs, keep_sizes, other) ==
    IF pairs = <<>>
    THEN [keep_labs |-> keep_labs, keep_sizes |-> keep_sizes, other |-> other]
    ELSE LET lab == Head(pairs)[1]
             sz  == Head(pairs)[2]
         IN  IF sz * 100 < min_share * total /\ Len(keep_labs) >= KEEP_FLOOR
             THEN collapse_walk(Tail(pairs), total, min_share,
                                keep_labs, keep_sizes, other + sz)
             ELSE collapse_walk(Tail(pairs), total, min_share,
                                Append(keep_labs, lab), Append(keep_sizes, sz), other)

\* _collapse_small without lines 88-90: the collapsed slices are lost.
_collapse_small_no_other(labels, sizes, min_share) ==
    LET total == IF sum(sizes) # 0 THEN sum(sizes) ELSE 1
        w     == collapse_walk(sorted_desc(zip(labels, sizes)), total, min_share,
                               <<>>, <<>>, 0)
    IN  <<w.keep_labs, w.keep_sizes>>

_collapse_small(labels, sizes, min_share) ==
    LET total == IF sum(sizes) # 0 THEN sum(sizes) ELSE 1
        w     == collapse_walk(sorted_desc(zip(labels, sizes)), total, min_share,
                               <<>>, <<>>, 0)
    IN  IF w.other > 0
        THEN <<Append(w.keep_labs, "other"), Append(w.keep_sizes, w.other)>>
        ELSE <<w.keep_labs, w.keep_sizes>>

Blank == << <<>>, <<>> >>

\* What update_chart hands to ax.pie.
slices(counts) ==
    IF counts # <<>>
    THEN _collapse_small(keys(counts), values(counts), DEFAULT_MIN_SHARE)
    ELSE << <<"waiting">>, <<1>> >>

\* The calls of update_chart that can raise: "none" is a call that returns.
RenderFaults == {"none", "clear", "pie", "draw"}

\* update_chart() without its ax.pie call: the axes are cleared and stay empty.
update_chart_no_pie(counts, old_chart, fault) ==
    [ chart  |-> IF fault = "clear" THEN old_chart ELSE Blank,
      raised |-> fault # "none" ]

\* update_chart(), with the call named by `fault` raising: ax.clear() empties
\* the axes, ax.pie() fills them, plt.draw()/plt.pause() show them.
update_chart(counts, old_chart, fault) ==
    [ chart  |-> CASE fault = "clear" -> old_chart
                   [] fault = "pie"   -> Blank
                   [] OTHER           -> slices(counts),
      raised |-> fault # "none" ]

(***************************************************************************)
(* Message processing                                                      *)
(***************************************************************************)
\* _coerce_to_dict(payload): the value returned.  Both except clauses
\* return None.
_coerce_to_dict(payload) ==
    CASE payload.type = "dict"  -> payload.value
      [] payload.type \in {"str", "bytes"} ->
            LET text   == IF payload.type = "bytes" THEN decode(payload) ELSE payload.text
                parsed == json_loads(text)
            IN  IF parsed.raised = "none" THEN parsed.value ELSE PyNone
      [] OTHER -> PyNone

\* Lines 150-154: the category key of msg; msg.get raises AttributeError when
\* msg is no dict.
category_of(msg) ==
    IF msg.py # "dict" THEN [raised |-> TRUE]
    ELSE LET raw == dict_get(msg, CATEGORY_FIELD, PyStr("unknown"))
         IN  [ raised |-> FALSE,
               cat    |-> IF raw.py = "str"
                          THEN (IF strip_lower(raw.s) # "" THEN strip_lower(raw.s)
                                ELSE "unknown")
                          ELSE (IF raw # PyNone THEN py_str(raw) ELSE "unknown") ]

\* process_message without its try statement: an exception leaves it.
process_message_no_try(payload, counts, old_chart, fault) ==
    LET msg == _coerce_to_dict(payload)
    IN  IF ~truthy(msg)
        THEN [counts |-> counts, chart |-> old_chart, ended |-> "early", rendered |-> "none"]
        ELSE LET c == category_of(msg)
             IN  IF c.raised
                 THEN [counts |-> counts, chart |-> old_chart, ended |-> "raised",
                       rendered |-> "none"]
                 ELSE LET counted == increment(counts, c.cat)
                          drawn   == update_chart(counted, old_chart, fault)
                      IN  [ counts   |-> counted,
                            chart    |-> drawn.chart,
                            ended    |-> IF drawn.raised THEN "raised" ELSE "ok",
                            rendered |-> IF drawn.raised THEN "raised" ELSE "ok" ]

\* process_message(payload) with update_chart failing as `fault` says: the
\* table and the chart it leaves, and how it ended (early: the return of line
\* 146; caught: the except clause of line 161; ok: the end of the try body).
process_message(payload, counts, old_chart, fault) ==
    LET msg == _coerce_to_dict(payload)
    IN  IF ~truthy(msg)
        THEN [counts |-> counts, chart |-> old_chart, ended |-> "early", rendered |-> "none"]
        ELSE LET c == category_of(msg)
             IN  IF c.raised
                 THEN [counts |-> counts, chart |-> old_chart, ended |-> "caught",
                       rendered |-> "none"]
                 ELSE LET counted == increment(counts, c.cat)
                          drawn   == update_chart(counted, old_chart, fault)
                      IN  [ counts   |-> counted,
                            chart    |-> drawn.chart,
                            ended    |-> IF drawn.raised THEN "caught" ELSE "ok",
                            rendered |-> IF drawn.raised THEN "raised" ELSE "ok" ]

\* A payload that is neither a mapping nor the encoding of one.
Malformed(payload) ==
    CASE payload.type = "dict"  -> FALSE
      [] payload.type = "str"   -> ~(payload.text.kind = "json" /\ payload.text.value.py = "dict")
      [] payload.type = "bytes" -> ~(~payload.damaged /\ payload.text.kind = "json"
                                      /\ payload.text.value.py = "dict")
      [] OTHER -> TRUE

(***************************************************************************)
(* main                                                                    *)
(***************************************************************************)
NoArgs == [labels |-> <<>>, sizes |-> <<>>, min_share |-> DEFAULT_MIN_SHARE]

Init ==
    /\ pc = "start"
    /\ category_counts = <<>>
    /\ chart = Blank
    /\ record = NoRecord
    /\ pulled = 0
    /\ returned = 0
    /\ dropped = 0
    /\ last_render = "none"
    /\ method = "init"
    /\ loop_end = "running"
    /\ close_calls = 0
    /\ args = NoArgs
    /\ ret = Blank

\* Line 177: the initial chart, drawn outside the try statement: an exception
\* of update_chart ends main.
InitialChart ==
    /\ pc = "start"
    /\ \E fault \in RenderFaults :
         LET drawn == update_chart(category_counts, chart, fault)
         IN  /\ chart' = drawn.chart
             /\ last_render' = IF drawn.raised THEN "raised" ELSE "ok"
             /\ pc' = IF drawn.raised THEN "crashed" ELSE "poll"
    /\ method' = "initial_chart"
    /\ UNCHANGED <<category_counts, record, pulled, returned, dropped, loop_end, close_calls, args, ret>>

\* Line 181: the consumer yields a record.
Pull ==
    /\ pc = "poll"
    /\ pulled < MaxMsgs
    /\ \E p \in Payloads : record' = p
    /\ pulled' = pulled + 1
    /\ pc' = "processing"
    /\ method' = "pull"
    /\ UNCHANGED <<category_counts, chart, returned, dropped, last_render, loop_end, close_calls, args, ret>>

\* Line 184: process_message(record.value) runs to its end.  An exception
\* that left it would be caught by line 187 and end the loop.
ProcessMessage ==
    /\ pc = "processing"
    /\ \E fault \in RenderFaults :
         LET r == process_message(record, category_counts, chart, fault)
         IN  /\ category_counts' = r.counts
             /\ chart' = r.chart
             /\ last_render' = IF r.rendered = "none" THEN last_render ELSE r.rendered
             /\ dropped' = IF Malformed(record) \/ r.ended = "caught"
                           THEN dropped + 1 ELSE dropped
             /\ method' = r.ended
             /\ pc' = IF r.ended = "raised" THEN "finally" ELSE "poll"
             /\ loop_end' = IF r.ended = "raised" THEN "consumer_error" ELSE loop_end
    /\ returned' = returned + 1
    /\ record' = NoRecord
    /\ UNCHANGED <<pulled, close_calls, args, ret>>

\* Line 185: KeyboardInterrupt while the iterator blocks.
InterruptPoll ==
    /\ pc = "poll"
    /\ pc' = "finally"
    /\ loop_end' = "interrupt"
    /\ method' = "interrupt"
    /\ UNCHANGED <<category_counts, chart, record, pulled, returned, dropped,
                   last_render, close_calls, args, ret>>

\* Line 185: KeyboardInterrupt inside process_message, which no except clause
\* of process_message or _coerce_to_dict catches.  It arrives before the
\* count, after it, or inside update_chart.
InterruptProcessing ==
    /\ pc = "processing"
    /\ \E at \in {"before_count", "after_count", "after_clear", "after_pie"} :
         LET r == process_message(record, category_counts, chart, "none")
         IN  /\ at # "before_count" => r.ended = "ok"
             /\ category_counts' = IF at = "before_count" THEN category_counts ELSE r.counts
             /\ chart' = CASE at = "after_clear" -> Blank
                           [] at = "after_pie"   -> r.chart
                           [] OTHER              -> chart
             /\ last_render' = IF at \in {"after_clear", "after_pie"} THEN "raised"
                               ELSE last_render
    /\ pc' = "finally"
    /\ method' = "interrupt"
    /\ loop_end' = "interrupt"
    /\ UNCHANGED <<record, pulled, returned, dropped, close_calls, args, ret>>

\* Line 181: the iterator is exhausted (StopIteration ends the for loop).
Exhausted ==
    /\ pc = "poll"
    /\ pc' = "finally"
    /\ loop_end' = "exhausted"
    /\ method' = "exhausted"
    /\ UNCHANGED <<category_counts, chart, record, pulled, returned, dropped,
                   last_render, close_calls, args, ret>>

\* Line 187: the consumer raises while iterating.
ConsumerError ==
    /\ pc = "poll"
    /\ pc' = "finally"
    /\ loop_end' = "consumer_error"
    /\ method' = "consumer_error"
    /\ UNCHANGED <<category_counts, chart, record, pulled, returned, dropped,
                   last_render, close_calls, args, ret>>

\* The finally clause without its inner try: an exception of close() ends main.
Close_unguarded ==
    /\ pc = "finally"
    /\ close_calls' = close_calls + 1
    /\ \E close_raises \in BOOLEAN :
         /\ method' = IF close_raises THEN "close_raised" ELSE "closed"
         /\ pc' = IF close_raises THEN "crashed" ELSE "done"
    /\ UNCHANGED <<category_counts, chart, record, pulled, returned, dropped,
                   last_render, loop_end, args, ret>>

\* Lines 189-196: consumer.close(), whose exception is swallowed, then the
\* end of main.
Close ==
    /\ pc = "finally"
    /\ close_calls' = close_calls + 1
    /\ \E close_raises \in BOOLEAN :
         method' = IF close_raises THEN "close_raised" ELSE "closed"
    /\ pc' = "done"
    /\ UNCHANGED <<category_counts, chart, record, pulled, returned, dropped,
                   last_render, loop_end, args, ret>>

Next ==
    \/ InitialChart
    \/ Pull
    \/ ProcessMessage
    \/ InterruptPoll
    \/ InterruptProcessing
    \/ Exhausted
    \/ ConsumerError
    \/ Close

Spec == Init /\ [][Next]_vars

(***************************************************************************)
(* Properties of the consumer (under Spec)                                 *)
(***************************************************************************)
Placeholder == << <<"waiting">>, <<1>> >>

KeySet(counts) == {counts[i][1] : i \in 1..Len(counts)}

\* The mapping a well-formed payload holds or encodes.
EventOf(payload) ==
    IF payload.type = "dict" THEN payload.value ELSE payload.text.value

\* C1: whenever the loop is back at the iterator, the counts sum to the
\* number of messages processed minus the number dropped (malformed or
\* unsupported payload, or an exception caught while processing).
C1_TotalIsProcessedMinusDropped ==
    pc = "poll" => sum(values(category_counts)) = returned - dropped

\* C5: processing a mapping whose category field is absent or null adds
\* exactly 1 to the count of "unknown".
C5_MissingOrNullCountsUnknown ==
    [][ ( /\ pc = "processing"
          /\ pc' = "poll"
          /\ ~Malformed(record)
          /\ dict_get(EventOf(record), CATEGORY_FIELD, PyNone) = PyNone )
        => count_of(category_counts', "unknown")
             = count_of(category_counts, "unknown") + 1 ]_vars

\* C6: _coerce_to_dict returns a mapping or None: a mapping passes through
\* unchanged and every payload that is no mapping and encodes none gives None.
C6_CoerceReturnsDictOrNone ==
    pc = "processing" =>
        LET r == _coerce_to_dict(record)
        IN  /\ r = PyNone \/ r.py = "dict"
            /\ record.type = "dict" => r = record.value
            /\ Malformed(record) => r = PyNone

\* C7: a step of process_message that is not cut short by an interrupt
\* returns to the iterator of the consume loop: the loop has not ended and
\* the consumer is not closed, whatever exception was raised while decoding,
\* extracting or rendering; and for malformed JSON text the table is left as
\* it was.
C7_FailureIsolation ==
    [][ (pc = "processing" /\ method' # "interrupt")
        => (/\ pc' = "poll"
            /\ loop_end' = "running"
            /\ close_calls' = 0
            /\ returned' = returned + 1
            /\ (record.type = "str" /\ record.text.kind = "invalid")
                 => (category_counts' = category_counts /\ method' = "early")) ]_vars

\* An exception of update_chart was caught while processing the second
\* record, and the loop is at the iterator again.
C7_Witness ==
    /\ pc = "poll"
    /\ method = "caught"
    /\ last_render = "raised"
    /\ returned = 2
    /\ loop_end = "running"
    /\ ENABLED Pull

\* C8: an interrupt, in the blocked iterator or inside process_message, ends
\* the loop, and so do exhaustion and a consumer exception; once the loop has
\* ended no record is pulled or processed, consumer.close() is the next step
\* and is called exactly once, and main reaches its end whether or not
\* close() raised.
C8_OrderlyShutdown ==
    /\ [](/\ close_calls <= 1
          /\ pc = "finally" => (close_calls = 0 /\ ENABLED Close)
          /\ pc = "done" => close_calls = 1
          /\ loop_end # "running" <=> pc \in {"finally", "done"})
    /\ [][ method' = "interrupt"
           => (pc \in {"poll", "processing"} /\ pc' = "finally"
               /\ loop_end' = "interrupt") ]_vars
    /\ [][ (pc = "finally" \/ pc = "done")
           => (/\ pulled' = pulled
               /\ returned' = returned
               /\ category_counts' = category_counts
               /\ chart' = chart) ]_vars
    /\ [][ pc = "finally" => (pc' = "done" /\ close_calls' = 1) ]_vars

\* main has ended after an interrupt inside process_message and a close()
\* that raised.
C8_Witness ==
    /\ pc = "done"
    /\ loop_end = "interrupt"
    /\ record # NoRecord
    /\ method = "close_raised"
    /\ close_calls = 1

\* C9: every step leaves the table as it is or adds exactly 1 to the count
\* of one key, the category key of the message being processed, and leaves
\* every other key and its count alone: no count decreases, no key is removed.
C9_UpdateFrame ==
    [][ ( \/ category_counts' = category_counts
          \/ /\ pc = "processing"
             /\ ~category_of(_coerce_to_dict(record)).raised
             /\ LET cat == category_of(_coerce_to_dict(record)).cat
                IN  /\ count_of(category_counts', cat) = count_of(category_counts, cat) + 1
                    /\ KeySet(category_counts') = KeySet(category_counts) \cup {cat}
                    /\ \A k \in KeySet(category_counts') \ {cat} :
                          count_of(category_counts', k) = count_of(category_counts, k)
                    /\ Cardinality(KeySet(category_counts')) = Len(category_counts') ) ]_vars

\* A count has been raised twice while another key kept its count.
C9_Witness ==
    /\ category_counts = << <<"unknown", 1>>, <<"cats", 2>> >>
    /\ method = "ok"

Labels == {"sports", "politics", "tech", "weather", "other"}

CountValues == {3, 7, 50, 90}

MinShares == {DEFAULT_MIN_SHARE, 60}

\* Sequences of n distinct labels.
LabelSeqs(n) ==
    { l \in [1..n -> Labels] : \A i, j \in 1..n : l[i] = l[j] => i = j }

CollapseInit ==
    /\ pc = "call"
    /\ \E n \in 1..MaxCats :
         \E l \in LabelSeqs(n), z \in [1..n -> CountValues], m \in MinShares :
            args = [labels |-> l, sizes |-> z, min_share |-> m]
    /\ ret = Blank
    /\ category_counts = <<>>
    /\ chart = Blank
    /\ record = NoRecord
    /\ pulled = 0
    /\ returned = 0
    /\ dropped = 0
    /\ last_render = "none"
    /\ method = "init"
    /\ loop_end = "running"
    /\ close_calls = 0

CallCollapse ==
    /\ pc = "call"
    /\ ret' = _collapse_small(args.labels, args.sizes, args.min_share)
    /\ pc' = "returned"
    /\ method' = "_collapse_small"
    /\ UNCHANGED <<category_counts, chart, record, pulled, returned, dropped,
                   last_render, loop_end, close_calls, args>>

CollapseNext == CallCollapse

CollapseSpec == CollapseInit /\ [][CollapseNext]_vars

(***************************************************************************)
(* Properties of _collapse_small (under CollapseSpec)                      *)
(***************************************************************************)
ArgIdx == 1..Len(args.labels)

ArgTotal == sum(args.sizes)

RECURSIVE SizeOver(_)
SizeOver(S) ==
    IF S = {} THEN 0
    ELSE LET i == CHOOSE x \in S : TRUE
         IN  args.sizes[i] + SizeOver(S \ {i})

\* Category i comes before category j in the walk: larger count first, equal
\* counts in the table's order.
Before(i, j) ==
    \/ args.sizes[i] > args.sizes[j]
    \/ args.sizes[i] = args.sizes[j] /\ i < j

Rank(i) == 1 + Cardinality({j \in ArgIdx : Before(j, i)})

\* The keep rule: the share reaches the threshold, or fewer than two
\* categories come before.
Kept(i) ==
    \/ args.sizes[i] * 100 >= args.min_share * ArgTotal
    \/ Rank(i) <= 2

NKept == Cardinality({i \in ArgIdx : Kept(i)})

\* C2: the returned slices conserve the total and partition the categories:
\* the returned sizes sum to the table's total, and there is a set S of
\* categories that are exactly the leading slices, each with its own label
\* and count, while the others are summed into one trailing "other" slice,
\* present only when there is something to sum.
C2_CollapseConservesAndPartitions ==
    pc = "returned" =>
        LET labs == ret[1]
            szs  == ret[2]
        IN  /\ Len(labs) = Len(szs)
            /\ sum(szs) = ArgTotal
            /\ \E S \in SUBSET ArgIdx :
                 LET k    == Cardinality(S)
                     rest == SizeOver(ArgIdx \ S)
                 IN  /\ k <= Len(labs)
                     /\ {<<labs[j], szs[j]>> : j \in 1..k}
                          = {<<args.labels[i], args.sizes[i]>> : i \in S}
                     /\ IF rest > 0
                        THEN /\ Len(labs) = k + 1
                             /\ labs[k + 1] = "other"
                             /\ szs[k + 1] = rest
                        ELSE Len(labs) = k

\* Two categories of a four-category table were summed into "other".
C2_Witness ==
    /\ pc = "returned"
    /\ args.labels = <<"politics", "sports", "weather", "tech">>
    /\ args.sizes = <<3, 90, 3, 7>>
    /\ args.min_share = DEFAULT_MIN_SHARE
    /\ ret = << <<"sports", "tech", "other">>, <<90, 7, 6>> >>

\* C3: with threshold 0.05 the result is that of the walk: the category of
\* rank r is slice r when it is kept (share >= 5% or rank <= 2), the others
\* are summed into "other", appended last when the sum is not zero; kept
\* slices are in non-increasing order of count, every kept count is at least
\* every collapsed count, and {sports: 90, politics: 3, tech: 7} gives
\* [(sports, 90), (tech, 7), (other, 3)].
C3_CollapseIsTheWalk ==
    (pc = "returned" /\ args.min_share = DEFAULT_MIN_SHARE) =>
        LET labs  == ret[1]
            szs   == ret[2]
            other == SizeOver({i \in ArgIdx : ~Kept(i)})
        IN  /\ \A i \in ArgIdx :
                 Kept(i) => /\ Rank(i) <= NKept
                            /\ Rank(i) <= Len(labs)
                            /\ labs[Rank(i)] = args.labels[i]
                            /\ szs[Rank(i)] = args.sizes[i]
            /\ IF other > 0
               THEN /\ Len(labs) = NKept + 1 /\ Len(szs) = NKept + 1
                    /\ labs[NKept + 1] = "other"
                    /\ szs[NKept + 1] = other
               ELSE Len(labs) = NKept /\ Len(szs) = NKept
            /\ \A j, k \in 1..NKept : j < k => szs[j] >= szs[k]
            /\ \A j \in 1..NKept : \A i \in ArgIdx : ~Kept(i) => szs[j] >= args.sizes[i]
            /\ (args.labels = <<"sports", "politics", "tech">> /\ args.sizes = <<90, 3, 7>>)
                 => ret = << <<"sports", "tech", "other">>, <<90, 7, 3>> >>

\* The table of the scenario has been collapsed.
C3_Witness ==
    /\ pc = "returned"
    /\ args = [labels |-> <<"sports", "politics", "tech">>, sizes |-> <<90, 3, 7>>,
               min_share |-> DEFAULT_MIN_SHARE]
    /\ ret = << <<"sports", "tech", "other">>, <<90, 7, 3>> >>

\* C4: whatever the threshold, a table of two or more categories has two of
\* its categories as its first two slices, and a table of fewer than three
\* categories is returned as its own categories, with no "other" slice.
C4_CollapseFloor ==
    pc = "returned" =>
        LET labs == ret[1]
            szs  == ret[2]
            n    == Len(args.labels)
        IN  /\ n >= 2 =>
                 /\ Len(labs) >= 2
                 /\ \E i, j \in ArgIdx :
                       /\ i # j
                       /\ <<labs[1], szs[1]>> = <<args.labels[i], args.sizes[i]>>
                       /\ <<labs[2], szs[2]>> = <<args.labels[j], args.sizes[j]>>
            /\ n < 3 =>
                 /\ Len(labs) = n
                 /\ {<<labs[j], szs[j]>> : j \in 1..n}
                      = {<<args.labels[i], args.sizes[i]>> : i \in ArgIdx}

\* Two categories, both under the threshold, both shown.
C4_Witness ==
    /\ pc = "returned"
    /\ args = [labels |-> <<"tech", "sports">>, sizes |-> <<3, 3>>, min_share |-> 60]
    /\ \A i \in ArgIdx : args.sizes[i] * 100 < args.min_share * ArgTotal
    /\ ret = << <<"tech", "sports">>, <<3, 3>> >>

====
